---- MODULE Spec2Model ----
(***************************************************************************)
(* A model of the KloX object/value runtime (src/runtime/src):             *)
(* the Value variant and its primitive operations, the LoxCallable         *)
(* protocol (LoxFunction, LoxBoundMethod, LoxClass) and the class/instance *)
(* object model (LoxClass::call, LoxInstance::get, LoxInstance::set).      *)
(*                                                                         *)
(* Numbers are C++ doubles in the source: IEEE-754 binary64 values.  A     *)
(* double is modelled as its class (finite, infinite, NaN), its sign and,  *)
(* when finite, its 53-bit significand and binary exponent; / rounds the   *)
(* quotient to the nearest double, ties to even, and == is the IEEE        *)
(* comparison (NaN equals nothing, +0.0 equals -0.0).                      *)
(*                                                                         *)
(* Objects owned through shared_ptr live in two tables: classes and        *)
(* instances, addressed by their index (the identity of the object).  An   *)
(* instance records whether a shared_ptr outside the object graph (a       *)
(* variable of the caller) owns it; an instance that neither such a        *)
(* variable nor a field nor a method table owns is destroyed, and its      *)
(* index stays behind as Destroyed unless it is the last of the table.     *)
(* LoxFunction and LoxBoundMethod objects have no mutable state and no     *)
(* observable identity in the runtime (equal() never compares handles), so *)
(* they are modelled as the records of their members.                      *)
(***************************************************************************)
EXTENDS Integers, Sequences, FiniteSets, TLC

VARIABLES classes, instances, last

vars == <<classes, instances, last>>

\* Bounds of the model.
MaxClasses == 2
MaxInstances == 2
MaxArgs == 2

(***************************************************************************)
(* Value: the std::variant of lox_runtime.h.                               *)
(***************************************************************************)
Abs(n) == IF n < 0 THEN -n ELSE n

\* A significand is held in two limbs <<hi, lo>>, worth hi * 2^27 + lo.
Limb == 2^27

Dbl(p)    == <<2 * p[1] + (2 * p[2]) \div Limb, (2 * p[2]) % Limb>>
Half(p)   == <<p[1] \div 2, (p[1] % 2) * (Limb \div 2) + p[2] \div 2>>
Odd(p)    == p[2] % 2 = 1
Inc(p)    == IF p[2] + 1 = Limb THEN <<p[1] + 1, 0>> ELSE <<p[1], p[2] + 1>>
Geq(p, q) == p[1] > q[1] \/ (p[1] = q[1] /\ p[2] >= q[2])
Sub(p, q) ==
  IF p[2] >= q[2]
  THEN <<p[1] - q[1], p[2] - q[2]>>
  ELSE <<p[1] - q[1] - 1, p[2] + Limb - q[2]>>

\* A double.  A finite one is (-1)^neg * (hi * 2^27 + lo) * 2^exp, where
\* the significand is in [2^52, 2^53) and -1074 <= exp <= 971 (normal), or
\* below 2^52 with exp = -1074 (subnormal), or 0 with exp = 0 (zero).
Fin(neg, exp, m) == [cls |-> "fin", neg |-> neg, exp |-> exp, hi |-> m[1], lo |-> m[2]]
Zero(neg)        == Fin(neg, 0, <<0, 0>>)
Inf(neg)         == [cls |-> "inf", neg |-> neg, exp |-> 0, hi |-> 0, lo |-> 0]
NaN              == [cls |-> "nan", neg |-> FALSE, exp |-> 0, hi |-> 0, lo |-> 0]

IsZero(x) == x.cls = "fin" /\ x.hi = 0 /\ x.lo = 0
Sig(x)    == <<x.hi, x.lo>>

\* A non-zero significand scaled into [2^52, 2^53): <<significand, exponent>>.
RECURSIVE Normalize(_, _)
Normalize(m, e) ==
  IF m[1] >= 2^25 THEN <<m, e>>
  ELSE IF m[1] < 2^13
  THEN Normalize(<<m[1] * 2^13 + m[2] \div 2^14, (m[2] % 2^14) * 2^13>>, e - 13)
  ELSE Normalize(Dbl(m), e - 1)

\* The double of an integer literal (of magnitude below 2^27).
FromInt(n) ==
  IF n = 0 THEN Zero(FALSE)
  ELSE LET ne == Normalize(<<0, Abs(n)>>, 0) IN Fin(n < 0, ne[2], ne[1])

\* n more bits of the quotient by d, from remainder r: <<quotient, remainder>>.
RECURSIVE QuotientBits(_, _, _, _)
QuotientBits(r, d, q, n) ==
  IF n = 0 \/ q[1] < 0   \* q[1] is never negative: the test evaluates q at every step
  THEN <<q, r>>
  ELSE LET r2 == Dbl(r)
       IN  IF Geq(r2, d)
           THEN QuotientBits(Sub(r2, d), d, Inc(Dbl(q)), n - 1)
           ELSE QuotientBits(r2, d, Dbl(q), n - 1)

\* q shifted right by s bits, with the guard bit (the last bit shifted out)
\* and the sticky bit (any bit shifted out before it): <<q, guard, sticky>>.
RECURSIVE ShiftRight(_, _, _, _)
ShiftRight(q, guard, sticky, s) ==
  IF s = 0 THEN <<q, guard, sticky>>
  ELSE IF q = <<0, 0>> THEN <<q, FALSE, sticky \/ guard>>
  ELSE ShiftRight(Half(q), Odd(q), sticky \/ guard, s - 1)

\* Round to nearest, ties to even.
Round(q, guard, sticky) == IF guard /\ (sticky \/ Odd(q)) THEN Inc(q) ELSE q

\* x / y on doubles.
DoubleDiv(x, y) ==
  LET neg == x.neg # y.neg
  IN  IF x.cls = "nan" \/ y.cls = "nan" THEN NaN
      ELSE IF x.cls = "inf" THEN (IF y.cls = "inf" THEN NaN ELSE Inf(neg))
      ELSE IF y.cls = "inf" THEN Zero(neg)
      ELSE IF IsZero(y) THEN (IF IsZero(x) THEN NaN ELSE Inf(neg))
      ELSE IF IsZero(x) THEN Zero(neg)
      ELSE LET nx  == Normalize(Sig(x), x.exp)
               ny  == Normalize(Sig(y), y.exp)
               big == Geq(nx[1], ny[1])
               mx  == IF big THEN nx[1] ELSE Dbl(nx[1])
               e0  == (IF big THEN nx[2] ELSE nx[2] - 1) - ny[2] - 52
               qr  == QuotientBits(Sub(mx, ny[1]), ny[1], <<0, 1>>, 53)
               s   == IF e0 < -1074 THEN -1074 - e0 ELSE 0
               sh  == ShiftRight(Half(qr[1]), Odd(qr[1]), qr[2] # <<0, 0>>, s)
               m   == Round(sh[1], sh[2], sh[3])
               up  == m[1] >= 2^26
               m2  == IF up THEN Half(m) ELSE m
               e2  == IF up THEN e0 + s + 1 ELSE e0 + s
           IN  IF e2 > 971 THEN Inf(neg)
               ELSE IF m2 = <<0, 0>> THEN Zero(neg)
               ELSE Fin(neg, e2, m2)

\* x == y on doubles.
DoubleEq(x, y) ==
  /\ x.cls # "nan"
  /\ y.cls # "nan"
  /\ (x = y \/ (IsZero(x) /\ IsZero(y)))

Number(n)      == [kind |-> "Number",   val |-> FromInt(n)]
NumberOf(d)    == [kind |-> "Number",   val |-> d]
Text(s)        == [kind |-> "Text",     val |-> s]
Boolean(b)     == [kind |-> "Boolean",  val |-> b]
Nil            == [kind |-> "Nil",      val |-> "nullptr"]
Callable(c)    == [kind |-> "Callable", val |-> c]
Instance(i)    == [kind |-> "Instance", val |-> i]
Class(k)       == [kind |-> "Class",    val |-> k]

\* The callable objects.
LoxFunction(ac, b)    == [type |-> "LoxFunction", argCount |-> ac, body |-> b]
LoxBoundMethod(m, i)  == [type |-> "LoxBoundMethod", method |-> m, instance |-> i]
ClassRef(k)           == [type |-> "LoxClass", id |-> k]

\* The outcome of an operation: a returned value or a thrown runtime_error.
Return(v)  == [ok |-> TRUE,  val |-> v,   err |-> ""]
Throw(msg) == [ok |-> FALSE, val |-> Nil, err |-> msg]

is(kind, v) == v.kind = kind

asNumber(v) == IF is("Number", v) THEN Return(v) ELSE Throw("Operand must be a number.")
asString(v) == IF is("Text", v) THEN Return(v) ELSE Throw("Operand must be a string.")
asBool(v)   == IF is("Boolean", v) THEN Return(v) ELSE Throw("Operand must be a boolean.")
isNil(v)    == is("Nil", v)

\* Variant: divide without the hard error on a zero divisor.
divide_nocheck(a, b) ==
  IF is("Number", a) /\ is("Number", b)
  THEN Return(NumberOf(DoubleDiv(asNumber(a).val.val, asNumber(b).val.val)))
  ELSE Throw("Operands must be two numbers or two strings.")

divide(a, b) ==
  IF is("Number", a) /\ is("Number", b)
  THEN LET divisor == asNumber(b).val.val
       IN  IF DoubleEq(divisor, FromInt(0))
           THEN Throw("Division by zero.")
           ELSE Return(NumberOf(DoubleDiv(asNumber(a).val.val, divisor)))
  ELSE Throw("Operands must be two numbers or two strings.")

\* Variant: equality that compares handles by reference.
equal_handles(a, b) ==
  IF a.kind # b.kind THEN FALSE
  ELSE IF is("Number", a) THEN DoubleEq(asNumber(a).val.val, asNumber(b).val.val)
  ELSE a.val = b.val

equal(a, b) ==
  IF a.kind # b.kind THEN FALSE
  ELSE IF is("Number", a) THEN DoubleEq(asNumber(a).val.val, asNumber(b).val.val)
  ELSE IF is("Text", a) THEN asString(a).val.val = asString(b).val.val
  ELSE IF is("Boolean", a) THEN asBool(a).val.val = asBool(b).val.val
  ELSE IF isNil(a) THEN TRUE
  ELSE FALSE

notEqual(a, b) == ~equal(a, b)

(***************************************************************************)
(* The heap: the LoxClass and LoxInstance objects.                         *)
(***************************************************************************)
Heap(cs, ins) == [classes |-> cs, instances |-> ins]

\* std::unordered_map as a function on the set of its keys.
EmptyMap == [n \in {} |-> Nil]
Put(m, k, v) == [x \in (DOMAIN m) \cup {k} |-> IF x = k THEN v ELSE m[x]]

\* LoxClass(n, sup, m): name(n), superclass(sup), methods(m); sup = 0 is nullptr.
NewClass(n, sup, m) == [name |-> n, superclass |-> sup, methods |-> m]

\* LoxInstance(k): klass(k), fields empty; std::make_shared hands it to a
\* shared_ptr of the code that made it.
NewInstance(k) == [klass |-> k, fields |-> EmptyMap, owned |-> TRUE]

\* What is left at the index of an instance whose last owner went away.
Destroyed == [klass |-> 0, fields |-> EmptyMap, owned |-> FALSE]

\* The instances of h that exist.
Live(h) == {i \in 1..Len(h.instances) : h.instances[i] # Destroyed}

\* The outcome of a call: the heap it leaves and what it returned or threw.
Outcome(h, r) == [h |-> h, res |-> r]

(***************************************************************************)
(* std::shared_ptr ownership.  A node is <<"I", i>> (an instance) or       *)
(* <<"C", k>> (a class); a bound method passes its references on to        *)
(* whoever holds it.                                                       *)
(***************************************************************************)
RECURSIVE CallableRefs(_)
CallableRefs(c) ==
  CASE c.type = "LoxFunction"    -> {}
    [] c.type = "LoxBoundMethod" -> {<<"I", c.instance>>} \cup CallableRefs(c.method)
    [] c.type = "LoxClass"       -> {<<"C", c.id>>}

ValueRefs(v) ==
  CASE is("Instance", v) -> {<<"I", v.val>>}
    [] is("Class", v)    -> {<<"C", v.val>>}
    [] is("Callable", v) -> CallableRefs(v.val)
    [] OTHER             -> {}

\* The instances the values of a call in progress own: this and args.
Pinned(values) ==
  {n[2] : n \in {r \in UNION {ValueRefs(values[x]) : x \in 1..Len(values)} : r[1] = "I"}}

\* Instance i is referred to by a field of a live instance or by a method
\* table.
Referenced(h, alive, i) ==
  \/ \E j \in alive : \E f \in DOMAIN h.instances[j].fields :
       <<"I", i>> \in ValueRefs(h.instances[j].fields[f])
  \/ \E k \in 1..Len(h.classes) : \E m \in DOMAIN h.classes[k].methods :
       <<"I", i>> \in CallableRefs(h.classes[k].methods[m])

\* The instances of h left once every instance whose use_count is 0 (no
\* owner among the caller's variables, the call in progress, the fields and
\* the method tables) is destroyed, and with it the references its fields
\* held.
RECURSIVE Survivors(_, _, _)
Survivors(h, pinned, alive) ==
  LET unowned == {i \in alive : ~h.instances[i].owned /\ i \notin pinned}
      dead    == {i \in unowned : ~Referenced(h, alive, i)}
  IN  IF unowned = {} \/ dead = {} THEN alive ELSE Survivors(h, pinned, alive \ dead)

\* The heap once the instances nothing owns any more are destroyed.
Release(h, pinned) ==
  IF \A i \in 1..Len(h.instances) : h.instances[i].owned \/ h.instances[i] = Destroyed
  THEN h
  ELSE LET live  == Live(h)
           alive == Survivors(h, pinned, live)
           n     == IF alive = {} THEN 0 ELSE CHOOSE i \in alive : \A j \in alive : j <= i
       IN  IF alive = live
           THEN h
           ELSE [h EXCEPT !.instances =
                   [x \in 1..n |-> IF x \in alive THEN h.instances[x] ELSE Destroyed]]

\* The heap once the shared_ptr variables and temporaries of a call that own
\* the instances made after keep go out of scope.
Discard(h, keep) ==
  IF Len(h.instances) <= keep
  THEN h
  ELSE [h EXCEPT !.instances =
          [x \in 1..Len(h.instances) |->
             IF x > keep /\ h.instances[x] # Destroyed
             THEN [h.instances[x] EXCEPT !.owned = FALSE]
             ELSE h.instances[x]]]

\* Variant: get that looks in the method table before the fields.
LoxInstance_get_methodFirst(h, i, name) ==
  LET inst    == h.instances[i]
      methods == h.classes[inst.klass].methods
  IN  IF name \in DOMAIN methods
      THEN Return(Callable(LoxBoundMethod(methods[name], i)))
      ELSE IF name \in DOMAIN inst.fields
      THEN Return(inst.fields[name])
      ELSE Throw("Undefined property '" \o name \o "'.")

\* Variant: get that also looks in the superclass's method table.
LoxInstance_get_inherit(h, i, name) ==
  LET inst    == h.instances[i]
      methods == h.classes[inst.klass].methods
      sup     == h.classes[inst.klass].superclass
  IN  IF name \in DOMAIN inst.fields
      THEN Return(inst.fields[name])
      ELSE IF name \in DOMAIN methods
      THEN Return(Callable(LoxBoundMethod(methods[name], i)))
      ELSE IF sup # 0 /\ name \in DOMAIN h.classes[sup].methods
      THEN Return(Callable(LoxBoundMethod(h.classes[sup].methods[name], i)))
      ELSE Throw("Undefined property '" \o name \o "'.")

LoxInstance_get(h, i, name) ==
  LET inst    == h.instances[i]
      methods == h.classes[inst.klass].methods
  IN  IF name \in DOMAIN inst.fields
      THEN Return(inst.fields[name])
      ELSE IF name \in DOMAIN methods
      THEN Return(Callable(LoxBoundMethod(methods[name], i)))
      ELSE Throw("Undefined property '" \o name \o "'.")

\* Variant: set that does not overwrite an existing field.
LoxInstance_set_keepFirst(h, i, name, value) ==
  IF name \in DOMAIN h.instances[i].fields
  THEN h
  ELSE Release([h EXCEPT !.instances[i].fields = Put(@, name, value)],
               {i} \cup Pinned(<<value>>))

\* Variant: set that also replaces a method of that name in the class.
LoxInstance_set_onClass(h, i, name, value) ==
  Release([h EXCEPT !.classes[h.instances[i].klass].methods =
                      [x \in DOMAIN @ |-> IF x = name THEN LoxFunction(0, "clock") ELSE @[x]],
                    !.instances[i].fields = Put(@, name, value)],
          {i} \cup Pinned(<<value>>))

\* LoxInstance::set.  fields[name] = value destroys the Value that was
\* there: an instance it was the last owner of is destroyed with it.
LoxInstance_set(h, i, name, value) ==
  Release([h EXCEPT !.instances[i].fields = Put(@, name, value)],
          {i} \cup Pinned(<<value>>))

\* What clockFn returns: 42.0.
ClockResult == Number(42)

\* The bodies of the functions of main.cpp.
Body(b, args, h) ==
  CASE b = "clock" -> Outcome(h, Return(ClockResult))
    [] b = "sayHello" ->
         IF ~is("Instance", args[1])
         THEN Outcome(h, Throw("bad_variant_access"))
         ELSE Outcome(h, Return(Nil))
    [] b = "setValue" ->
         IF ~is("Instance", args[1])
         THEN Outcome(h, Throw("bad_variant_access"))
         ELSE Outcome(LoxInstance_set(h, args[1].val, "value", args[2]), Return(Nil))

LoxFunction_arity(f) == f.argCount

LoxFunction_call(f, args, h) ==
  IF Len(args) # f.argCount
  THEN Outcome(h, Throw("Wrong arity."))
  ELSE Body(f.body, args, h)

RECURSIVE Callable_arity(_, _)
RECURSIVE Callable_call(_, _, _)
RECURSIVE LoxClass_call(_, _, _)

LoxClass_arity(h, k) ==
  LET methods == h.classes[k].methods
  IN  IF "init" \in DOMAIN methods THEN Callable_arity(h, methods["init"]) ELSE 0

\* Variant: a bound method's arity without the receiver slot.
LoxBoundMethod_arity_lessReceiver(h, b) == Callable_arity(h, b.method) - 1

LoxBoundMethod_arity(h, b) == Callable_arity(h, b.method)

LoxBoundMethod_call(b, args, h) ==
  Callable_call(b.method, <<Instance(b.instance)>> \o args, h)

\* Virtual dispatch of LoxCallable::arity and LoxCallable::call.
Callable_arity(h, c) ==
  CASE c.type = "LoxFunction"    -> LoxFunction_arity(c)
    [] c.type = "LoxBoundMethod" -> LoxBoundMethod_arity(h, c)
    [] c.type = "LoxClass"       -> LoxClass_arity(h, c.id)

Callable_call(c, args, h) ==
  CASE c.type = "LoxFunction"    -> LoxFunction_call(c, args, h)
    [] c.type = "LoxBoundMethod" -> LoxBoundMethod_call(c, args, h)
    [] c.type = "LoxClass"       -> LoxClass_call(c.id, args, h)

\* Variant: a class call that returns what init returned.
LoxClass_call_returnsInit(k, args, h) ==
  LET id      == Len(h.instances) + 1
      h1      == [h EXCEPT !.instances = Append(@, NewInstance(k))]
      methods == h.classes[k].methods
  IN  IF "init" \in DOMAIN methods
      THEN LET o == LoxBoundMethod_call(LoxBoundMethod(methods["init"], id), args, h1)
           IN  IF o.res.ok THEN o ELSE Outcome(Release(Discard(o.h, id - 1), Pinned(args)), o.res)
      ELSE Outcome(h1, Return(Instance(id)))

\* LoxClass::call.  boundInit->call(args) is a discarded-value expression:
\* what init returned is dropped at once, and the returned Value takes over
\* the new instance from the local shared_ptr.  When init throws, the
\* exception propagates and the local shared_ptr instance is dropped as
\* well.  Either way the instances left without an owner are destroyed.
LoxClass_call(k, args, h) ==
  LET id      == Len(h.instances) + 1
      h1      == [h EXCEPT !.instances = Append(@, NewInstance(k))]
      methods == h.classes[k].methods
  IN  IF "init" \in DOMAIN methods
      THEN LET o == LoxBoundMethod_call(LoxBoundMethod(methods["init"], id), args, h1)
           IN  IF o.res.ok
               THEN Outcome(Release(Discard(o.h, id), Pinned(args)), Return(Instance(id)))
               ELSE Outcome(Release(Discard(o.h, id - 1), Pinned(args)), o.res)
      ELSE Outcome(h1, Return(Instance(id)))

(***************************************************************************)
(* The driver: the operations a caller of the runtime performs, as in      *)
(* main.cpp.  last records the latest operation, its operands and what it  *)
(* returned or threw.                                                      *)
(***************************************************************************)
NoCallee == [type |-> "none"]

\* destroyed: the instances whose destructor ran during the operation.
Op(op, self, name, args, callee, res, arity, flag, destroyed) ==
  [op |-> op, self |-> self, name |-> name, args |-> args, callee |-> callee,
   res |-> res, arity |-> arity, flag |-> flag, destroyed |-> destroyed]

heap == Heap(classes, instances)

\* The functions of main.cpp: clockFn, sayHello and initFn.
clockFn  == LoxFunction(0, "clock")
sayHello == LoxFunction(1, "sayHello")
initFn   == LoxFunction(2, "setValue")

\* The callable the driver holds: the one the latest operation returned.
Held == IF last.res.ok /\ is("Callable", last.res.val) THEN {last.res.val.val} ELSE {}

PropNames  == {"value", "sayHello", "init", "undefinedName"}

\* The method table of main.cpp (lines 32-34), and the class built from it.
MyClassMethods == [n \in {"sayHello", "init"} |-> IF n = "init" THEN initFn ELSE sayHello]
MyClass == NewClass("MyClass", 0, MyClassMethods)

\* The number main.cpp passes to the constructor: 123.0.
ArgNumber == Number(123)

\* The instances a shared_ptr variable of the driver owns, such as instance
\* in main.cpp.
Owned == {i \in Live(heap) : instances[i].owned}

\* The values the driver passes as arguments and stores in fields.
ArgValues == {ArgNumber} \cup {Instance(i) : i \in Owned}

\* Argument lists of every length up to MaxArgs: any value first, numbers after.
ArgLists ==
  {<<>>} \cup
  {[j \in 1..n |-> IF j = 1 THEN v ELSE ArgNumber] : v \in ArgValues, n \in 1..MaxArgs}

\* What the driver stores: any value under "value"; a number under the name
\* of a method.
SetInputs ==
  {<<"value", v>> : v \in ArgValues} \cup {<<"sayHello", ArgNumber>>}

\* The state of main.cpp once myClass is built (line 36).
Init ==
  /\ classes = <<MyClass>>
  /\ instances = <<>>
  /\ last = Op("start", 0, "", <<>>, NoCallee, Return(Nil), 0, FALSE, {})

\* std::make_shared<LoxClass>(name, sup, methods)
DefineClass(name, sup, methods) ==
  /\ Len(classes) < MaxClasses
  /\ classes' = Append(classes, NewClass(name, sup, methods))
  /\ UNCHANGED instances
  /\ last' = Op("LoxClass", Len(classes) + 1, name, <<>>, NoCallee, Return(Nil), 0, FALSE, {})

\* klass->arity()
ClassArity(k) ==
  /\ last' = Op("LoxClass::arity", k, "", <<>>, NoCallee, Return(Nil),
                LoxClass_arity(heap, k), FALSE, {})
  /\ UNCHANGED <<classes, instances>>

\* klass->call(args)
ClassCall(k, args) ==
  \E o \in {LoxClass_call(k, args, heap)} :
      /\ Len(o.h.instances) <= MaxInstances
      /\ classes' = o.h.classes
      /\ instances' = o.h.instances
      /\ last' = Op("LoxClass::call", k, "", args, NoCallee, o.res, 0, FALSE,
                    Live(heap) \ Live(o.h))

\* instance->get(name)
Get(i, name) ==
  /\ last' = Op("LoxInstance::get", i, name, <<>>, NoCallee,
                LoxInstance_get(heap, i, name), 0, FALSE, {})
  /\ UNCHANGED <<classes, instances>>

\* instance->set(name, value)
Set(i, name, value) ==
  \E h \in {LoxInstance_set(heap, i, name, value)} :
      /\ classes' = h.classes
      /\ instances' = h.instances
      /\ last' = Op("LoxInstance::set", i, name, <<value>>, NoCallee, Return(Nil), 0, FALSE,
                    Live(heap) \ Live(h))

\* The shared_ptr variables of the driver that own instance i (instance, and
\* the bound method a get returned) go out of scope or are reset: the
\* instance is destroyed unless a field or a method table still owns it.
Drop(i) ==
  \E h \in {Release([heap EXCEPT !.instances[i].owned = FALSE], {})} :
      /\ classes' = h.classes
      /\ instances' = h.instances
      /\ last' = Op("reset", i, "", <<>>, NoCallee, Return(Nil), 0, FALSE,
                    Live(heap) \ Live(h))

\* callable->arity(), for the callable a get returned
BoundArity(c) ==
  /\ last' = Op("LoxCallable::arity", 0, "", <<>>, c, Return(Nil),
                Callable_arity(heap, c), FALSE, {})
  /\ UNCHANGED <<classes, instances>>

\* callable->call(args), for the callable a get returned
BoundCall(c, args) ==
  \E o \in {Callable_call(c, args, heap)} :
      /\ Len(o.h.instances) <= MaxInstances
      /\ classes' = o.h.classes
      /\ instances' = o.h.instances
      /\ last' = Op("LoxCallable::call", 0, "", args, c, o.res, 0, FALSE,
                    Live(heap) \ Live(o.h))

Next ==
  \/ \E k \in 1..Len(classes) : ClassArity(k)
  \/ \E k \in 1..Len(classes), args \in ArgLists : ClassCall(k, args)
  \/ \E i \in Owned, name \in PropNames : Get(i, name)
  \/ \E i \in Owned, nv \in SetInputs : Set(i, nv[1], nv[2])
  \/ \E c \in Held : BoundArity(c)
  \/ \E c \in Held, args \in ArgLists : BoundCall(c, args)

Spec == Init /\ [][Next]_vars

(***************************************************************************)
(* Class construction: classes built from several method tables, with and  *)
(* without a superclass, then called and read.                             *)
(***************************************************************************)
ClassNames == {"MyClass"}

\* The method tables a class is built with: none, that of main.cpp, tables
\* whose init is a function of declared arity 1 and 0, and tables whose init
\* is a class built before (a LoxClass is a LoxCallable).
MethodTables ==
  {EmptyMap,
   MyClassMethods,
   [n \in {"init"} |-> sayHello],
   [n \in {"init"} |-> clockFn]}
  \cup {[n \in {"init"} |-> ClassRef(k)] : k \in 1..Len(classes)}

NumberLists == UNION {[1..n -> {ArgNumber}] : n \in 0..MaxArgs}

InitClass ==
  /\ classes = <<>>
  /\ instances = <<>>
  /\ last = Op("start", 0, "", <<>>, NoCallee, Return(Nil), 0, FALSE, {})

NextClass ==
  \/ \E name \in ClassNames, sup \in 0..Len(classes), methods \in MethodTables :
       DefineClass(name, sup, methods)
  \/ \E k \in 1..Len(classes) : ClassArity(k)
  \/ \E k \in 1..Len(classes), args \in NumberLists : ClassCall(k, args)
  \/ \E i \in Owned, name \in PropNames : Get(i, name)

SpecClass == InitClass /\ [][NextClass]_vars

(***************************************************************************)
(* A class and a subclass of it: the operations on classes and instances   *)
(* when a class has a superclass.                                          *)
(***************************************************************************)
Derived == NewClass("Derived", 1, EmptyMap)

InitDerived ==
  /\ classes = <<MyClass, Derived>>
  /\ instances = <<>>
  /\ last = Op("start", 0, "", <<>>, NoCallee, Return(Nil), 0, FALSE, {})

NextDerived ==
  \/ \E k \in 1..Len(classes) : ClassArity(k)
  \/ \E k \in 1..Len(classes), args \in {<<>>, <<ArgNumber>>} : ClassCall(k, args)
  \/ \E i \in Owned, name \in {"value", "sayHello"} : Get(i, name)
  \/ \E i \in Owned, nv \in SetInputs : Set(i, nv[1], nv[2])
  \/ \E c \in Held : BoundArity(c)
  \/ \E c \in Held, args \in {<<>>, <<ArgNumber>>} : BoundCall(c, args)
  \/ \E i \in Owned : Drop(i)

SpecDerived == InitDerived /\ [][NextDerived]_vars

(***************************************************************************)
(* The primitive operations on values, applied to pairs of values.         *)
(***************************************************************************)
ValueHeap ==
  LoxClass_call(1, <<Number(0)>>,
                LoxClass_call(1, <<Number(123)>>, Heap(<<MyClass>>, <<>>)).h).h

\* Among the numbers: -0.0, infinity, NaN and 1.0 / 123.0, which is inexact.
Values ==
  {Number(0), Number(1), Number(-2), Number(123), Number(246),
   NumberOf(Zero(TRUE)), NumberOf(Inf(FALSE)), NumberOf(NaN),
   NumberOf(DoubleDiv(FromInt(1), FromInt(123))),
   Text(""), Text("1"), Boolean(TRUE), Boolean(FALSE), Nil,
   Callable(clockFn), Callable(LoxBoundMethod(sayHello, 1)),
   Instance(1), Instance(2), Class(1)}

InitValue ==
  /\ classes = ValueHeap.classes
  /\ instances = ValueHeap.instances
  /\ last = Op("start", 0, "", <<>>, NoCallee, Return(Nil), 0, FALSE, {})

Equal(a, b) ==
  /\ last' = Op("equal", 0, "", <<a, b>>, NoCallee, Return(Nil), 0, equal(a, b), {})
  /\ UNCHANGED <<classes, instances>>

NotEqual(a, b) ==
  /\ last' = Op("notEqual", 0, "", <<a, b>>, NoCallee, Return(Nil), 0, notEqual(a, b), {})
  /\ UNCHANGED <<classes, instances>>

Divide(a, b) ==
  /\ last' = Op("divide", 0, "", <<a, b>>, NoCallee, divide(a, b), 0, FALSE, {})
  /\ UNCHANGED <<classes, instances>>

NextValue ==
  \/ \E a \in Values, b \in Values : Equal(a, b)
  \/ \E a \in Values, b \in Values : NotEqual(a, b)
  \/ \E a \in Values, b \in Values : Divide(a, b)

SpecValue == InitValue /\ [][NextValue]_vars

(***************************************************************************)
(* The strong references between objects: the shared_ptr members of        *)
(* LoxInstance, LoxClass and LoxBoundMethod and the handles in field       *)
(* values (CallableRefs, ValueRefs).                                       *)
(***************************************************************************)
Nodes == {<<"I", i>> : i \in Live(heap)} \cup {<<"C", k>> : k \in 1..Len(classes)}

Refs(n) ==
  IF n[1] = "I"
  THEN {<<"C", instances[n[2]].klass>>}
       \cup UNION {ValueRefs(instances[n[2]].fields[f]) : f \in DOMAIN instances[n[2]].fields}
  ELSE (IF classes[n[2]].superclass = 0 THEN {} ELSE {<<"C", classes[n[2]].superclass>>})
       \cup UNION {CallableRefs(classes[n[2]].methods[m]) : m \in DOMAIN classes[n[2]].methods}

RECURSIVE ReachableFrom(_)
ReachableFrom(S) ==
  LET T == S \cup UNION {Refs(n) : n \in S}
  IN  IF T = S THEN S ELSE ReachableFrom(T)

(***************************************************************************)
(* The claims.                                                             *)
(***************************************************************************)
heapNext == Heap(classes', instances')

\* C1: calling a class whose init is a user function of declared arity 2
\* that stores its argument under "value", with one argument v, returns the
\* newly created instance (not what init returned), and get("value") on
\* that instance returns v.
C1_ConstructorRoundTrip ==
  [][(/\ last'.op = "LoxClass::call"
      /\ "init" \in DOMAIN classes[last'.self].methods
      /\ classes[last'.self].methods["init"] = LoxFunction(2, "setValue")
      /\ Len(last'.args) = 1)
     => (/\ Len(instances') = Len(instances) + 1
         /\ last'.res = Return(Instance(Len(instances')))
         /\ instances'[Len(instances')].klass = last'.self
         /\ LoxInstance_get(heapNext, Len(instances'), "value") = Return(last'.args[1]))]_vars

C1_Witness ==
  /\ last.op = "LoxClass::call"
  /\ last.args = <<Instance(1)>>
  /\ last.res = Return(Instance(2))
  /\ LoxInstance_get(heap, 2, "value") = Return(Instance(1))

\* The constructor arity a caller sees: init's declared arity less the
\* receiver, and 0 for a class without init.
CallerVisibleArity(k) ==
  IF "init" \in DOMAIN classes[k].methods
  THEN Callable_arity(heap, classes[k].methods["init"]) - 1
  ELSE 0

\* C2: a class called with a number of arguments other than its
\* caller-visible constructor arity fails with "Wrong arity." and returns
\* no instance.
C2_WrongArityFails ==
  (last.op = "LoxClass::call" /\ Len(last.args) # CallerVisibleArity(last.self))
    => last.res = Throw("Wrong arity.")

\* C3: get(name) returns the field when name is a field; otherwise a bound
\* method of the class's method and this instance when name is a method;
\* otherwise it fails with "Undefined property '<name>'.".  It leaves the
\* field tables as they were.
C3_GetResolution ==
  [][last'.op = "LoxInstance::get"
     => LET inst    == instances[last'.self]
            methods == classes[inst.klass].methods
            name    == last'.name
        IN  /\ instances' = instances
            /\ IF name \in DOMAIN inst.fields
               THEN last'.res = Return(inst.fields[name])
               ELSE IF name \in DOMAIN methods
               THEN last'.res = Return(Callable(LoxBoundMethod(methods[name], last'.self)))
               ELSE /\ ~last'.res.ok
                    /\ last'.res.err = "Undefined property '" \o name \o "'."]_vars

C3_Witness ==
  /\ last.op = "LoxInstance::get"
  /\ last.name = "sayHello"
  /\ "sayHello" \in DOMAIN instances[last.self].fields
  /\ "sayHello" \in DOMAIN classes[instances[last.self].klass].methods
  /\ last.res = Return(Number(123))

\* C4 as stated: set(name, value) does not fail; after it get(name) on that
\* instance returns value, also when name is the name of a method; every
\* other field of that instance, every other instance and every class are
\* unchanged.
C4_SetChangesOnlyName ==
  [][last'.op = "LoxInstance::set"
     => LET i     == last'.self
            name  == last'.name
            value == last'.args[1]
        IN  /\ last'.res.ok
            /\ LoxInstance_get(heapNext, i, name) = Return(value)
            /\ classes' = classes
            /\ Live(heapNext) \subseteq Live(heap)
            /\ \A j \in Live(heap) :
                 /\ j \in Live(heapNext)
                 /\ DOMAIN instances'[j].fields =
                      DOMAIN instances[j].fields \cup (IF j = i THEN {name} ELSE {})
                 /\ \A n \in DOMAIN instances[j].fields :
                      (j # i \/ n # name) => instances'[j].fields[n] = instances[j].fields[n]]_vars

\* C4 amended: set(name, value) does not fail; after it get(name) on that
\* instance returns value, also when name is the name of a method; every
\* other field of that instance and every class are unchanged; every other
\* instance is unchanged or destroyed, and it is destroyed exactly when the
\* overwritten value was its last owner: it was reached from that value, no
\* variable of the caller owns it and nothing that is left refers to it.
C4_SetThenGet ==
  [][last'.op = "LoxInstance::set"
     => LET i     == last'.self
            name  == last'.name
            value == last'.args[1]
            left  == Live(heapNext)
            held(j) == \/ instances[j].owned
                       \/ \E x \in left : \E f \in DOMAIN instances'[x].fields :
                            <<"I", j>> \in ValueRefs(instances'[x].fields[f])
        IN  /\ last'.res.ok
            /\ LoxInstance_get(heapNext, i, name) = Return(value)
            /\ classes' = classes
            /\ left \subseteq Live(heap)
            /\ i \in left
            /\ instances'[i].klass = instances[i].klass
            /\ instances'[i].owned = instances[i].owned
            /\ DOMAIN instances'[i].fields = DOMAIN instances[i].fields \cup {name}
            /\ \A n \in DOMAIN instances[i].fields \ {name} :
                 instances'[i].fields[n] = instances[i].fields[n]
            /\ \A j \in Live(heap) \ {i} :
                 IF j \in left
                 THEN instances'[j] = instances[j] /\ held(j)
                 ELSE /\ ~held(j)
                      /\ name \in DOMAIN instances[i].fields
                      /\ <<"I", j>> \in ReachableFrom(ValueRefs(instances[i].fields[name]))]_vars

\* A set that destroyed the instance its old value owned: the field that
\* was an instance is a number and the first instance is gone, and the field
\* that hides the method sayHello of the class is still there.
C4_Witness ==
  /\ last.op = "LoxInstance::set"
  /\ last.self = 2
  /\ last.name = "value"
  /\ last.destroyed = {1}
  /\ instances[1] = Destroyed
  /\ LoxInstance_get(heap, 2, "value") = Return(ArgNumber)
  /\ instances[2].klass = 1
  /\ "sayHello" \in DOMAIN instances[2].fields

\* C5: calling a bound method of method m and instance i with args is the
\* call of m with <<i>> \o args: the same result or failure and the same
\* effect; its arity is m's arity; and when m is a user function the call
\* passes the arity check exactly when Len(args) = arity - 1.
C5_BoundMethodDelegates ==
  [][/\ (last'.op = "LoxCallable::call" /\ last'.callee.type = "LoxBoundMethod")
        => LET b == last'.callee
               o == Callable_call(b.method, <<Instance(b.instance)>> \o last'.args, heap)
           IN  /\ last'.res = o.res
               /\ heapNext = o.h
               /\ b.method.type = "LoxFunction"
                    => ((last'.res.err # "Wrong arity.")
                          <=> (Len(last'.args) = Callable_arity(heap, b) - 1))
     /\ (last'.op = "LoxCallable::arity" /\ last'.callee.type = "LoxBoundMethod")
        => last'.arity = Callable_arity(heap, last'.callee.method)]_vars

C5_Witness ==
  /\ last.op = "LoxCallable::call"
  /\ last.callee = LoxBoundMethod(initFn, 1)
  /\ last.args = <<Instance(2)>>
  /\ last.res = Return(Nil)
  /\ instances[1].fields["value"] = Instance(2)

\* C6 as stated: equal is false for values of different variants; for the
\* same variant it is structural equality for Number (the same number, the
\* two zeros taken as one), Text and Boolean, true for Nil, and false for
\* two Callable, Instance or Class values, the same reference included;
\* notEqual is its negation.
C6_StructuralEquality ==
  LET a == last.args[1]
      b == last.args[2]
      expected ==
        IF a.kind # b.kind THEN FALSE
        ELSE IF a.kind = "Number"
        THEN a.val = b.val \/ (IsZero(a.val) /\ IsZero(b.val))
        ELSE IF a.kind \in {"Text", "Boolean"} THEN a.val = b.val
        ELSE IF a.kind = "Nil" THEN TRUE
        ELSE FALSE
  IN  /\ last.op = "equal" => last.flag = expected
      /\ last.op = "notEqual" => last.flag = ~expected

\* C6 amended: as C6, but for Number equal is the == of doubles: NaN is
\* unequal to every Number, itself included, 0.0 equals -0.0, and any other
\* two Numbers are equal exactly when they are the same double.
C6_Equality ==
  LET a == last.args[1]
      b == last.args[2]
      expected ==
        IF a.kind # b.kind THEN FALSE
        ELSE IF a.kind = "Number"
        THEN IF a.val.cls = "nan" \/ b.val.cls = "nan" THEN FALSE
             ELSE IF a.val.cls = "fin" /\ b.val.cls = "fin"
                     /\ <<a.val.hi, a.val.lo>> = <<0, 0>> /\ <<b.val.hi, b.val.lo>> = <<0, 0>>
             THEN TRUE
             ELSE a.val = b.val
        ELSE IF a.kind \in {"Text", "Boolean"} THEN a.val = b.val
        ELSE IF a.kind = "Nil" THEN TRUE
        ELSE FALSE
  IN  /\ last.op = "equal" => last.flag = expected
      /\ last.op = "notEqual" => last.flag = ~expected

C6_Witness ==
  /\ last.op = "equal"
  /\ last.args = <<NumberOf(NaN), NumberOf(NaN)>>
  /\ last.flag = FALSE

\* C7: divide of two Numbers fails with "Division by zero." when the
\* divisor is zero (0.0 or -0.0), whatever the dividend, and returns a
\* Number otherwise: the exact quotient when the operands are integers and
\* the division leaves no remainder, and of the sign of the operands'
\* product unless it is NaN; with an operand that is not a Number it fails
\* with the operand-type error, also when the divisor is zero.
C7_Divide ==
  last.op = "divide"
    => LET a == last.args[1]
           b == last.args[2]
           r == last.res.val
       IN  IF a.kind = "Number" /\ b.kind = "Number"
           THEN IF b.val.cls = "fin" /\ b.val.hi = 0 /\ b.val.lo = 0
                THEN last.res = Throw("Division by zero.")
                ELSE /\ last.res.ok
                     /\ r.kind = "Number"
                     /\ r.val.cls # "nan" => r.val.neg = (a.val.neg # b.val.neg)
                     /\ \A m, n \in {-2, 0, 1, 123, 246} :
                          (/\ a = Number(m)
                           /\ b = Number(n)
                           /\ n # 0
                           /\ Abs(m) % Abs(n) = 0)
                            => r = IF m = 0 THEN NumberOf(Zero(n < 0))
                                   ELSE Number((IF (m < 0) # (n < 0) THEN -1 ELSE 1)
                                               * (Abs(m) \div Abs(n)))
           ELSE last.res = Throw("Operands must be two numbers or two strings.")

C7_Witness ==
  /\ last.op = "divide"
  /\ last.args = <<Number(0), Number(0)>>
  /\ last.res = Throw("Division by zero.")

\* C8: the strong-reference graph has no cycle: no object reaches itself
\* through the references of instances, classes and bound methods.
C8_Acyclic == \A n \in Nodes : n \notin ReachableFrom(Refs(n))

\* C9: every operation leaves every class as it was built (name, superclass
\* and method table) and every instance that exists with the class it had;
\* an instance comes to exist only as the result of a class call, with the
\* class called as its class.
C9_ClassImmutable ==
  [][/\ Len(classes') >= Len(classes)
     /\ \A k \in 1..Len(classes) : classes'[k] = classes[k]
     /\ \A i \in Live(heap) \cap Live(heapNext) : instances'[i].klass = instances[i].klass
     /\ \A i \in Live(heapNext) \ Live(heap) :
          /\ last'.op = "LoxClass::call"
          /\ last'.res = Return(Instance(i))
          /\ instances'[i].klass = last'.self]_vars

\* A set on an instance of the subclass (its class has a superclass) that
\* destroyed another instance.
C9_Witness ==
  /\ last.op = "LoxInstance::set"
  /\ classes[instances[last.self].klass].superclass = 1
  /\ last.destroyed # {}
  /\ last.self \in Live(heap)

\* C10: lookup stops at the instance's own class: a name that is neither a
\* field nor a method of that class is an undefined property, also when the
\* superclass has the method; a class without its own init has arity 0 and
\* its call returns a new instance with no field set.
C10_NoSuperclassLookup ==
  /\ last.op = "LoxInstance::get"
       => LET inst == instances[last.self]
          IN  (/\ last.name \notin DOMAIN inst.fields
               /\ last.name \notin DOMAIN classes[inst.klass].methods)
                => last.res = Throw("Undefined property '" \o last.name \o "'.")
  /\ (last.op = "LoxClass::arity" /\ "init" \notin DOMAIN classes[last.self].methods)
       => last.arity = 0
  /\ (last.op = "LoxClass::call" /\ "init" \notin DOMAIN classes[last.self].methods)
       => /\ last.res = Return(Instance(Len(instances)))
          /\ instances[Len(instances)] = NewInstance(last.self)

C10_Witness ==
  /\ last.op = "LoxInstance::get"
  /\ last.name = "sayHello"
  /\ ~last.res.ok
  /\ classes[instances[last.self].klass].superclass # 0
  /\ "sayHello" \in DOMAIN classes[classes[instances[last.self].klass].superclass].methods

====
